---------------------------- MODULE Spec2Model ----------------------------
(***************************************************************************)
(* A model of static/js/main.js: the page script of 1cbs-app.  The script   *)
(* runs once at DOMContentLoaded and installs                                *)
(*   - openModal / closeModal / window.onclick   (modal controller),         *)
(*   - togglePassword                            (password visibility),      *)
(*   - setupDropZone / handleUpload              (drag and drop upload).     *)
(* The document (which elements exist, their classes and attributes) is not  *)
(* part of the script: it is chosen in the initial state.  Every handler     *)
(* runs to completion as one step; the two continuations of an upload        *)
(* (fetch settling, response.json() settling) are steps of their own.        *)
(***************************************************************************)
EXTENDS Naturals, Sequences, FiniteSets

VARIABLES
    elems,          \* ids of the elements present in the document
    modalClass,     \* ids of the elements whose classList contains 'modal'
    display,        \* [id \in elems |-> the element's style.display]
    videoSrc,       \* videoPlayer.src ("" when empty or no such element)
    videoPaused,    \* videoPlayer.paused
    inputType,      \* [field |-> type of the input before the toggle button]
    iconClasses,    \* [field |-> classList of the <i> inside the toggle button]
    uploadUrlAttr,  \* [input id |-> its dataset.uploadUrl]
    bindings,       \* [zone id |-> [input, url]]: the listeners setupDropZone registered
    dragover,       \* ids of the zones whose classList contains 'dragover'
    inputFiles,     \* [input id |-> the input's files]
    requests,       \* the fetches issued so far, in order of issue
    completed,      \* indices of the requests whose promise chain has ended, in order
    fx,             \* calls out of the script made by the last handler turn
    threw,          \* whether the last handler turn ended with an uncaught exception
    lastEvt,        \* history: the event or call the last step handled
    lastModalEvt,   \* history: [modal |-> last open/close addressed to it]
    pwHist,         \* history: [field |-> the states before its last two toggles]
    loadPc,         \* position of the DOMContentLoaded handler: "stars", "wiring", "ready"
    starI,          \* the loop variable i of the star loop
    starCount,      \* number of children appended to the star-background container
    starStyles,     \* the distinct [width, height] styles among those children
    installed       \* names of the handlers assigned on window

loadVars   == <<loadPc, starI, starCount, starStyles, installed>>
domVars    == <<elems, modalClass, uploadUrlAttr, bindings, loadVars>>
modalVars  == <<display, videoSrc, videoPaused, lastModalEvt>>
pwVars     == <<inputType, iconClasses, pwHist>>
zoneVars   == <<dragover, inputFiles>>
uploadVars == <<requests, completed>>
vars == <<elems, modalClass, display, videoSrc, videoPaused, inputType,
          iconClasses, uploadUrlAttr, bindings, dragover, inputFiles,
          requests, completed, fx, threw, lastEvt, lastModalEvt, pwHist,
          loadPc, starI, starCount, starStyles, installed>>

(***************************************************************************)
(* Bounds of the model.                                                     *)
(***************************************************************************)
NumSrcs     == 2    \* distinct video sources passed to openModal
NumFields   == 2    \* password fields with a toggle button on the page
MaxFiles    == 2    \* longest file list of a drop or a selection (SpecUpload)
MaxRequests == 2    \* uploads issued in one page lifetime (SpecUpload)
MaxZoneFiles == 1   \* longest file list of a drop or a selection (SpecZones)
MaxZonePosts == 1   \* uploads issued in one page lifetime (SpecZones)
MaxDropFiles == 2   \* longest file list of a drop or a selection (SpecDrop)
MaxDropPosts == 2   \* uploads issued in one page lifetime (SpecDrop)
MaxFairFiles == 2   \* longest file list of a drop or a selection (SpecUploadFair)
MaxFairRequests == 1  \* uploads issued in one page lifetime (SpecUploadFair)

(***************************************************************************)
(* JavaScript values.                                                       *)
(***************************************************************************)
Undefined == "<undefined>"

\* ToBoolean of a string-or-undefined value, as `if (x)` and `!x` apply it.
Truthy(v) == v # Undefined /\ v # ""

(***************************************************************************)
(* The document.                                                            *)
(***************************************************************************)
VideoModalId == "videoPlayerModal"
VideoId      == "videoPlayer"
\* The elements the page uses as modals.
ModalIds     == {VideoModalId, "infoModal"}
\* The three setupDropZone call sites, in call order.
ZonePairs    == << <<"file-drop-zone", "file-input">>,
                   <<"video-drop-zone", "video-input">>,
                   <<"anime-drop-zone", "anime-input">> >>
ZoneIds      == {ZonePairs[i][1] : i \in 1..Len(ZonePairs)}
InputIds     == {ZonePairs[i][2] : i \in 1..Len(ZonePairs)}
InputOf(z)   == CHOOSE i \in InputIds : \E k \in 1..Len(ZonePairs) : ZonePairs[k] = <<z, i>>
\* An id no element of any page carries.
NoSuchId     == "noSuchElement"

\* document.getElementById(id) !== null
Exists(id) == id \in elems

VideoSrcs == {"v1.mp4", "v2.mp4", "v3.mp4", "v4.mp4"}
SrcName(i) == CASE i = 1 -> "v1.mp4" [] i = 2 -> "v2.mp4" [] i = 3 -> "v3.mp4" [] OTHER -> "v4.mp4"
\* The second argument of openModal: omitted, empty, or a source.
SrcArgs == {Undefined, ""} \cup {SrcName(i) : i \in 1..NumSrcs}

\* The record kept of the last event: its kind, the id (or target, or zone) it
\* addressed, its string argument, its file list and the number of the request
\* it settled or of the password field it toggled.
Evt(op, id, arg, files, n) ==
    [op |-> op, id |-> id, arg |-> arg, files |-> files, n |-> n]
NoEvt == Evt("load", "", "", <<>>, 0)

(***************************************************************************)
(* The star background (main.js 4-18) and the rest of the DOMContentLoaded  *)
(* handler, which runs to its end before any event is handled.              *)
(***************************************************************************)
StarBackgroundId == "star-background"
numberOfStars == 150

\* Values of `${Math.random() * 3}px`.
StarWidths == {"0.4px", "2.6px"}

\* The handlers the DOMContentLoaded handler assigns on window (main.js 21, 35,
\* 50, 57).
Handlers == {"openModal", "closeModal", "onclick", "togglePassword"}

\* One iteration of the star loop giving the star a height drawn on its own.
CreateStarOwnHeight ==
    /\ loadPc = "stars"
    /\ StarBackgroundId \in elems
    /\ starI < numberOfStars
    /\ \E w \in StarWidths, h \in StarWidths :
          starStyles' = starStyles \cup {[width |-> w, height |-> h]}
    /\ starCount' = starCount + 1
    /\ starI' = starI + 1
    /\ UNCHANGED <<elems, modalClass, uploadUrlAttr, bindings, loadPc, installed,
                   modalVars, pwVars, zoneVars, uploadVars, fx, threw, lastEvt>>

\* One iteration of the star loop (main.js 7-17): a star of a random width and
\* of that same height is appended to the container.
CreateStar ==
    /\ loadPc = "stars"
    /\ StarBackgroundId \in elems
    /\ starI < numberOfStars
    /\ \E w \in StarWidths :
          starStyles' = starStyles \cup {[width |-> w, height |-> w]}
    /\ starCount' = starCount + 1
    /\ starI' = starI + 1
    /\ UNCHANGED <<elems, modalClass, uploadUrlAttr, bindings, loadPc, installed,
                   modalVars, pwVars, zoneVars, uploadVars, fx, threw, lastEvt>>

\* The end of the star section: the container is missing (main.js 5) or the
\* loop condition fails (main.js 7).
EndStars ==
    /\ loadPc = "stars"
    /\ ~(StarBackgroundId \in elems) \/ ~(starI < numberOfStars)
    /\ loadPc' = "wiring"
    /\ UNCHANGED <<elems, modalClass, uploadUrlAttr, bindings, starI, starCount,
                   starStyles, installed,
                   modalVars, pwVars, zoneVars, uploadVars, fx, threw, lastEvt>>

(***************************************************************************)
(* Modal handling (main.js 20-54).                                          *)
(***************************************************************************)
\* openModal with the video lines outside the `if (modal)` block.
OpenModalUnguardedVideo(modalId, src) ==
    /\ threw' = FALSE
    /\ IF Exists(modalId)
       THEN display' = [display EXCEPT ![modalId] = "block"]
       ELSE UNCHANGED display
    /\ IF modalId = VideoModalId /\ Truthy(src) /\ Exists(VideoId)
       THEN /\ videoSrc' = src
            /\ videoPaused' = FALSE
       ELSE UNCHANGED <<videoSrc, videoPaused>>

\* The body of openModal (main.js 21-33).
OpenModal(modalId, src) ==
    /\ threw' = FALSE
    /\ IF Exists(modalId)
       THEN /\ display' = [display EXCEPT ![modalId] = "block"]
            /\ IF modalId = VideoModalId /\ Truthy(src) /\ Exists(VideoId)
               THEN /\ videoSrc' = src
                    /\ videoPaused' = FALSE
               ELSE UNCHANGED <<videoSrc, videoPaused>>
       ELSE UNCHANGED <<display, videoSrc, videoPaused>>

\* closeModal with the display assignment inside the video-player block.
CloseModalNestedHide(modalId) ==
    /\ threw' = FALSE
    /\ IF Exists(modalId) /\ modalId = VideoModalId /\ Exists(VideoId)
       THEN /\ display' = [display EXCEPT ![modalId] = "none"]
            /\ videoPaused' = TRUE
            /\ videoSrc' = ""
       ELSE UNCHANGED <<display, videoSrc, videoPaused>>

\* closeModal that pauses the video and leaves its source.
CloseModalKeepsSrc(modalId) ==
    /\ threw' = FALSE
    /\ IF Exists(modalId)
       THEN /\ display' = [display EXCEPT ![modalId] = "none"]
            /\ IF modalId = VideoModalId /\ Exists(VideoId)
               THEN /\ videoPaused' = TRUE
                    /\ UNCHANGED videoSrc
               ELSE UNCHANGED <<videoSrc, videoPaused>>
       ELSE UNCHANGED <<display, videoSrc, videoPaused>>

\* The body of closeModal (main.js 35-47).
CloseModal(modalId) ==
    /\ threw' = FALSE
    /\ IF Exists(modalId)
       THEN /\ display' = [display EXCEPT ![modalId] = "none"]
            /\ IF modalId = VideoModalId /\ Exists(VideoId)
               THEN /\ videoPaused' = TRUE
                    /\ videoSrc' = ""
               ELSE UNCHANGED <<videoSrc, videoPaused>>
       ELSE UNCHANGED <<display, videoSrc, videoPaused>>

\* History of the open/close events addressed to each modal.
NoteModal(id, what) ==
    lastModalEvt' = IF id \in DOMAIN lastModalEvt
                    THEN [lastModalEvt EXCEPT ![id] = what]
                    ELSE lastModalEvt

\* A call of window.openModal(modalId, videoSrc), from the page's markup.
OpenModalCall(modalId, src) ==
    /\ OpenModal(modalId, src)
    /\ NoteModal(modalId, "open")
    /\ fx' = <<>>
    /\ lastEvt' = Evt("openModal", modalId, src, <<>>, 0)
    /\ UNCHANGED <<domVars, pwVars, zoneVars, uploadVars>>

\* A call of window.closeModal(modalId), from the page's markup.
CloseModalCall(modalId) ==
    /\ CloseModal(modalId)
    /\ NoteModal(modalId, "close")
    /\ fx' = <<>>
    /\ lastEvt' = Evt("closeModal", modalId, "", <<>>, 0)
    /\ UNCHANGED <<domVars, pwVars, zoneVars, uploadVars>>

\* event.target.classList.contains('modal')
HasModalClass(target) == target \in modalClass

\* window.onclick without the class test.
WindowOnClickAnyTarget(target) == CloseModal(target)

\* window.onclick hiding the target itself instead of calling closeModal.
WindowOnClickHidesOnly(target) ==
    /\ threw' = FALSE
    /\ IF HasModalClass(target)
       THEN /\ display' = [display EXCEPT ![target] = "none"]
            /\ UNCHANGED <<videoSrc, videoPaused>>
       ELSE UNCHANGED <<display, videoSrc, videoPaused>>

\* window.onclick (main.js 50-54).
WindowOnClick(target) ==
    IF HasModalClass(target)
    THEN CloseModal(target)
    ELSE /\ threw' = FALSE
         /\ UNCHANGED <<display, videoSrc, videoPaused>>

\* The zone's click listener (main.js 82): fileInput.click().
ZoneOnClick(target) ==
    fx' = IF target \in DOMAIN bindings
          THEN <<[call |-> "click", on |-> bindings[target].input]>>
          ELSE <<>>

\* A click on element target: the listener on the target runs, then the event
\* bubbles to window.onclick.
Click(target) ==
    /\ Exists(target)
    /\ ZoneOnClick(target)
    /\ WindowOnClick(target)
    /\ IF HasModalClass(target)
       THEN NoteModal(target, "close")
       ELSE UNCHANGED lastModalEvt
    /\ lastEvt' = Evt("click", target, "", <<>>, 0)
    /\ UNCHANGED <<domVars, pwVars, zoneVars, uploadVars>>

(***************************************************************************)
(* Password visibility toggle (main.js 56-69).                              *)
(***************************************************************************)
Fields     == 1..NumFields
InputTypes == {"password", "text", "email"}
IconPool   == {"fa-eye", "fa-eye-slash", "fas"}

\* togglePassword that adds the new icon class and keeps the old one.
TogglePasswordNoRemove(b) ==
    /\ threw' = FALSE
    /\ IF inputType[b] = "password"
       THEN /\ inputType' = [inputType EXCEPT ![b] = "text"]
            /\ iconClasses' = [iconClasses EXCEPT ![b] = @ \cup {"fa-eye-slash"}]
       ELSE /\ inputType' = [inputType EXCEPT ![b] = "password"]
            /\ iconClasses' = [iconClasses EXCEPT ![b] = @ \cup {"fa-eye"}]

\* togglePassword with the icon classes of its two branches exchanged.
TogglePasswordSwappedIcons(b) ==
    /\ threw' = FALSE
    /\ IF inputType[b] = "password"
       THEN /\ inputType' = [inputType EXCEPT ![b] = "text"]
            /\ iconClasses' = [iconClasses EXCEPT
                                 ![b] = (@ \ {"fa-eye-slash"}) \cup {"fa-eye"}]
       ELSE /\ inputType' = [inputType EXCEPT ![b] = "password"]
            /\ iconClasses' = [iconClasses EXCEPT
                                 ![b] = (@ \ {"fa-eye"}) \cup {"fa-eye-slash"}]

\* The body of togglePassword, on the input and icon of field b.
TogglePassword(b) ==
    /\ threw' = FALSE
    /\ IF inputType[b] = "password"
       THEN /\ inputType' = [inputType EXCEPT ![b] = "text"]
            /\ iconClasses' = [iconClasses EXCEPT
                                 ![b] = (@ \ {"fa-eye"}) \cup {"fa-eye-slash"}]
       ELSE /\ inputType' = [inputType EXCEPT ![b] = "password"]
            /\ iconClasses' = [iconClasses EXCEPT
                                 ![b] = (@ \ {"fa-eye-slash"}) \cup {"fa-eye"}]

\* The last two elements of a sequence.
LastTwo(q) == IF Len(q) <= 2 THEN q ELSE SubSeq(q, Len(q) - 1, Len(q))

\* A click on the toggle button of field b: onclick="togglePassword(this)".
TogglePasswordCall(b) ==
    /\ TogglePassword(b)
    /\ pwHist' = [pwHist EXCEPT
                    ![b] = LastTwo(Append(@, [type |-> inputType[b],
                                              icon |-> iconClasses[b]]))]
    /\ fx' = <<>>
    /\ lastEvt' = Evt("togglePassword", "", "", <<>>, b)
    /\ UNCHANGED <<domVars, modalVars, zoneVars, uploadVars>>

(***************************************************************************)
(* Drag and drop upload (main.js 71-138).                                   *)
(***************************************************************************)
FileName(i) == CASE i = 1 -> "a.bin" [] i = 2 -> "b.bin" [] i = 3 -> "c.bin" [] OTHER -> "d.bin"
\* The file lists a drop or a selection carries: the first n files, n <= max.
FileLists(max) == {[i \in 1..n |-> FileName(i)] : n \in 0..max}

\* The upload URL written on the input paired with zone k of ZonePairs.
UrlName(k) == CASE k = 1 -> "/upload/file" [] k = 2 -> "/upload/video" [] OTHER -> "/upload/anime"
\* The values dataset.uploadUrl of that input can have: no attribute, an empty
\* one, or the URL.
AttrValues(k) == {Undefined, "", UrlName(k)}

\* setupDropZone without the `if (!uploadUrl) return`.
SetupDropZoneNoUrlCheck(E, attr, zoneId, inputId) ==
    IF ~(zoneId \in E) \/ ~(inputId \in E)
    THEN {}
    ELSE {[zone |-> zoneId, input |-> inputId, url |-> attr[inputId]]}

\* setupDropZone(zoneId, inputId) on a document with elements E and upload-URL
\* attributes attr: the bindings whose listeners it registers (none on an
\* early return).
SetupDropZone(E, attr, zoneId, inputId) ==
    IF ~(zoneId \in E) \/ ~(inputId \in E)
    THEN {}
    ELSE IF ~Truthy(attr[inputId])
         THEN {}
         ELSE {[zone |-> zoneId, input |-> inputId, url |-> attr[inputId]]}

\* The three calls with uploadUrl shared by the listeners of all zones instead
\* of being a const of each call: every listener sees the URL assigned last.
PageReadySharedUrl(E, attr) ==
    LET B == UNION {SetupDropZone(E, attr, ZonePairs[k][1], ZonePairs[k][2]) :
                        k \in 1..Len(ZonePairs)}
        last == CHOOSE k \in 1..Len(ZonePairs) :
                    /\ \E b \in B : b.zone = ZonePairs[k][1]
                    /\ \A j \in (k + 1)..Len(ZonePairs) :
                          ~(\E b \in B : b.zone = ZonePairs[j][1])
    IN  [z \in {b.zone : b \in B} |->
            [zone |-> z, input |-> InputOf(z), url |-> attr[ZonePairs[last][2]]]]

\* The three calls at the end of the DOMContentLoaded handler (main.js 136-138).
PageReady(E, attr) ==
    LET B == UNION {SetupDropZone(E, attr, ZonePairs[k][1], ZonePairs[k][2]) :
                        k \in 1..Len(ZonePairs)}
    IN  [z \in {b.zone : b \in B} |-> CHOOSE b \in B : b.zone = z]

\* The rest of the DOMContentLoaded handler (main.js 20-138): the handlers are
\* assigned on window and the three drop zones are set up.
Wire ==
    /\ loadPc = "wiring"
    /\ installed' = Handlers
    /\ bindings' = PageReady(elems, uploadUrlAttr)
    /\ loadPc' = "ready"
    /\ UNCHANGED <<elems, modalClass, uploadUrlAttr, starI, starCount, starStyles,
                   modalVars, pwVars, zoneVars, uploadVars, fx, threw, lastEvt>>

\* Whether a listener of setupDropZone is registered on zone z / on input i.
ZoneBound(z)  == z \in DOMAIN bindings
InputBound(i) == \E z \in DOMAIN bindings : bindings[z].input = i
BindingOfInput(i) == bindings[CHOOSE z \in DOMAIN bindings : bindings[z].input = i]

\* The FormData handleUpload builds: one part named 'file' per file, in order.
FormDataOf(files) == [i \in 1..Len(files) |-> <<"file", files[i]>>]

NoResp == [kind |-> "none", status |-> 0, json |-> FALSE]

\* handleUpload guarded against a second upload: it returns without a fetch
\* while a request is pending.
HandleUploadGuarded(files, url) ==
    /\ requests' = IF \E r \in 1..Len(requests) : requests[r].pc # "done"
                   THEN requests
                   ELSE Append(requests,
                               [url |-> url, method |-> "POST",
                                parts |-> FormDataOf(files),
                                pc |-> "fetch", resp |-> NoResp,
                                reloads |-> 0, alerts |-> 0, during |-> {}])
    /\ UNCHANGED completed

\* handleUpload(files, url) up to the fetch call (main.js 113-122).  The record
\* of a request holds its promise chain's position (pc), what it settled with
\* (resp), the reloads and alerts its callbacks made, and, as history, the
\* requests that were pending when it was issued (during).
HandleUpload(files, url) ==
    /\ requests' = Append(requests,
                          [url |-> url, method |-> "POST", parts |-> FormDataOf(files),
                           pc |-> "fetch", resp |-> NoResp,
                           reloads |-> 0, alerts |-> 0,
                           during |-> {r \in 1..Len(requests) :
                                          requests[r].pc # "done"}])
    /\ UNCHANGED completed

\* dragover on zone z (main.js 85-88).
DragOver(z) ==
    /\ Exists(z)
    /\ IF ZoneBound(z)
       THEN /\ dragover' = dragover \cup {z}
            /\ fx' = <<[call |-> "preventDefault", on |-> z]>>
       ELSE /\ UNCHANGED dragover
            /\ fx' = <<>>
    /\ threw' = FALSE
    /\ lastEvt' = Evt("dragover", z, "", <<>>, 0)
    /\ UNCHANGED <<domVars, modalVars, pwVars, inputFiles, uploadVars>>

\* dragleave on zone z (main.js 90-92).
DragLeave(z) ==
    /\ Exists(z)
    /\ IF ZoneBound(z)
       THEN dragover' = dragover \ {z}
       ELSE UNCHANGED dragover
    /\ fx' = <<>>
    /\ threw' = FALSE
    /\ lastEvt' = Evt("dragleave", z, "", <<>>, 0)
    /\ UNCHANGED <<domVars, modalVars, pwVars, inputFiles, uploadVars>>

\* The drop listener removing the indicator class only inside the files test.
OnDropKeepsClassWithoutFiles(z, files) ==
    IF Len(files) # 0
    THEN /\ dragover' = dragover \ {z}
         /\ inputFiles' = [inputFiles EXCEPT ![bindings[z].input] = files]
         /\ HandleUpload(files, bindings[z].url)
         /\ fx' = <<[call |-> "preventDefault", on |-> z],
                    [call |-> "fetch", on |-> bindings[z].url]>>
    ELSE /\ UNCHANGED <<dragover, inputFiles, uploadVars>>
         /\ fx' = <<[call |-> "preventDefault", on |-> z]>>

\* The drop listener of a bound zone z (main.js 95-103).
OnDrop(z, files) ==
    /\ dragover' = dragover \ {z}
    /\ IF Len(files) # 0
       THEN /\ inputFiles' = [inputFiles EXCEPT ![bindings[z].input] = files]
            /\ HandleUpload(files, bindings[z].url)
            /\ fx' = <<[call |-> "preventDefault", on |-> z],
                       [call |-> "fetch", on |-> bindings[z].url]>>
       ELSE /\ UNCHANGED <<inputFiles, uploadVars>>
            /\ fx' = <<[call |-> "preventDefault", on |-> z]>>

\* drop of file list files on zone z.
Drop(z, files) ==
    /\ Exists(z)
    /\ IF ZoneBound(z)
       THEN OnDrop(z, files)
       ELSE /\ UNCHANGED <<dragover, inputFiles, uploadVars>>
            /\ fx' = <<>>
    /\ threw' = FALSE
    /\ lastEvt' = Evt("drop", z, "", files, 0)
    /\ UNCHANGED <<domVars, modalVars, pwVars>>

\* The change listener of a bound input i (main.js 106-110); the input's files
\* are already those the user selected.
OnChange(i) ==
    IF Len(inputFiles'[i]) # 0
    THEN /\ HandleUpload(inputFiles'[i], BindingOfInput(i).url)
         /\ fx' = <<[call |-> "fetch", on |-> BindingOfInput(i).url]>>
    ELSE /\ UNCHANGED uploadVars
         /\ fx' = <<>>

\* The user selects file list files in the dialog of input i: change fires.
Change(i, files) ==
    /\ Exists(i)
    /\ inputFiles' = [inputFiles EXCEPT ![i] = files]
    /\ IF InputBound(i)
       THEN OnChange(i)
       ELSE /\ UNCHANGED uploadVars
            /\ fx' = <<>>
    /\ threw' = FALSE
    /\ lastEvt' = Evt("change", i, "", files, 0)
    /\ UNCHANGED <<domVars, modalVars, pwVars, dragover>>

\* What a fetch can settle with: a rejection (transport failure), or a response
\* with a status and a body that parses as JSON or does not.
Statuses  == {200, 500}
Rejected  == [kind |-> "rejected", status |-> 0, json |-> FALSE]
Responses == {[kind |-> "response", status |-> st, json |-> j] :
                 st \in Statuses, j \in BOOLEAN}
Pending(r) == r \in 1..Len(requests) /\ requests[r].pc # "done"

\* The second then-callback (main.js 124-128): log, reload.
OnSuccess(r) ==
    /\ requests' = [requests EXCEPT ![r].pc = "done", ![r].reloads = @ + 1]
    /\ completed' = Append(completed, r)
    /\ fx' = <<[call |-> "console.log", on |-> ""],
               [call |-> "reload", on |-> ""]>>

\* The catch-callback placed before the reloading then-callback: after the
\* alert the chain goes on to the reload.
OnErrorThenReload(r, resp) ==
    /\ requests' = [requests EXCEPT ![r].pc = "done", ![r].resp = resp,
                                    ![r].alerts = @ + 1, ![r].reloads = @ + 1]
    /\ completed' = Append(completed, r)
    /\ fx' = <<[call |-> "console.error", on |-> ""],
               [call |-> "alert", on |-> ""],
               [call |-> "reload", on |-> ""]>>

\* The catch-callback guarded so that only the last request to complete
\* reports: it stays silent while another request is pending.
OnErrorOnlyIfLast(r, resp) ==
    LET others == \E q \in 1..Len(requests) : q # r /\ requests[q].pc # "done"
    IN  /\ requests' = [requests EXCEPT ![r].pc = "done", ![r].resp = resp,
                                        ![r].alerts = IF others THEN @ ELSE @ + 1]
        /\ completed' = Append(completed, r)
        /\ fx' = IF others
                 THEN <<[call |-> "console.error", on |-> ""]>>
                 ELSE <<[call |-> "console.error", on |-> ""],
                        [call |-> "alert", on |-> ""]>>

\* The catch-callback retrying: after the alert it posts the same body again.
OnErrorRetries(r, resp) ==
    /\ requests' = Append([requests EXCEPT ![r].pc = "done", ![r].resp = resp,
                                           ![r].alerts = @ + 1],
                          [url |-> requests[r].url, method |-> "POST",
                           parts |-> requests[r].parts,
                           pc |-> "fetch", resp |-> NoResp,
                           reloads |-> 0, alerts |-> 0,
                           during |-> {q \in 1..Len(requests) :
                                          q # r /\ requests[q].pc # "done"}])
    /\ completed' = Append(completed, r)
    /\ fx' = <<[call |-> "console.error", on |-> ""],
               [call |-> "alert", on |-> ""],
               [call |-> "fetch", on |-> requests[r].url]>>

\* The catch-callback (main.js 129-132), reached with request r settled as
\* resp: log, alert.
OnError(r, resp) ==
    /\ requests' = [requests EXCEPT ![r].pc = "done", ![r].resp = resp,
                                    ![r].alerts = @ + 1]
    /\ completed' = Append(completed, r)
    /\ fx' = <<[call |-> "console.error", on |-> ""],
               [call |-> "alert", on |-> ""]>>

\* The first then-callback (main.js 123): response => response.json().
OnResponse(r, resp) ==
    /\ requests' = [requests EXCEPT ![r].pc = "json", ![r].resp = resp]
    /\ UNCHANGED completed
    /\ fx' = <<>>

\* The fetch settling on a chain without its catch: a rejected fetch ends the
\* request with neither callback run.
FetchSettleNoCatch(r, resp) ==
    /\ r \in 1..Len(requests)
    /\ requests[r].pc = "fetch"
    /\ IF resp.kind = "rejected"
       THEN /\ requests' = [requests EXCEPT ![r].pc = "done", ![r].resp = resp]
            /\ completed' = Append(completed, r)
            /\ fx' = <<>>
       ELSE OnResponse(r, resp)
    /\ threw' = FALSE
    /\ lastEvt' = Evt("fetchSettled", "", "", <<>>, r)
    /\ UNCHANGED <<domVars, modalVars, pwVars, zoneVars>>

\* The fetch of request r settles with resp.
FetchSettle(r, resp) ==
    /\ r \in 1..Len(requests)
    /\ requests[r].pc = "fetch"
    /\ IF resp.kind = "rejected"
       THEN OnError(r, resp)
       ELSE OnResponse(r, resp)
    /\ threw' = FALSE
    /\ lastEvt' = Evt("fetchSettled", "", "", <<>>, r)
    /\ UNCHANGED <<domVars, modalVars, pwVars, zoneVars>>

\* response.json() settling, with the first then-callback rejecting a
\* response that is not ok (status outside 200-299).
JsonSettleChecksOk(r) ==
    /\ r \in 1..Len(requests)
    /\ requests[r].pc = "json"
    /\ IF requests[r].resp.json /\ requests[r].resp.status \in 200..299
       THEN OnSuccess(r)
       ELSE OnError(r, requests[r].resp)
    /\ threw' = FALSE
    /\ lastEvt' = Evt("jsonSettled", "", "", <<>>, r)
    /\ UNCHANGED <<domVars, modalVars, pwVars, zoneVars>>

\* response.json() of request r settles: resolved when the body parses.
JsonSettle(r) ==
    /\ r \in 1..Len(requests)
    /\ requests[r].pc = "json"
    /\ IF requests[r].resp.json
       THEN OnSuccess(r)
       ELSE OnError(r, requests[r].resp)
    /\ threw' = FALSE
    /\ lastEvt' = Evt("jsonSettled", "", "", <<>>, r)
    /\ UNCHANGED <<domVars, modalVars, pwVars, zoneVars>>

(***************************************************************************)
(* Initial states: the page right after the DOMContentLoaded handler.       *)
(***************************************************************************)
\* The state of a document with elements E, of which MC carry class 'modal',
\* and upload-URL attributes attr.  Modals start hidden and the video idle.
InitDoc(E, MC, attr) ==
    /\ elems = E
    /\ modalClass = MC
    /\ uploadUrlAttr = attr
    /\ bindings = PageReady(E, attr)
    /\ display = [e \in E |-> IF e \in ModalIds THEN "none" ELSE ""]
    /\ videoSrc = ""
    /\ videoPaused = TRUE
    /\ dragover = {}
    /\ inputFiles = [i \in E \cap InputIds |-> <<>>]
    /\ requests = <<>>
    /\ completed = <<>>
    /\ fx = <<>>
    /\ threw = FALSE
    /\ lastEvt = NoEvt
    /\ lastModalEvt = [m \in E \cap ModalIds |-> "none"]
    /\ loadPc = "ready"
    /\ starI = 0
    /\ starCount = IF StarBackgroundId \in E THEN numberOfStars ELSE 0
    /\ starStyles = IF StarBackgroundId \in E
                    THEN {[width |-> w, height |-> w] : w \in StarWidths}
                    ELSE {}
    /\ installed = Handlers

\* The state of that document when the DOMContentLoaded handler starts: no
\* star, no handler on window and no listener on a zone yet.
InitLoading(E, MC, attr) ==
    /\ elems = E
    /\ modalClass = MC
    /\ uploadUrlAttr = attr
    /\ bindings = <<>>
    /\ display = [e \in E |-> IF e \in ModalIds THEN "none" ELSE ""]
    /\ videoSrc = ""
    /\ videoPaused = TRUE
    /\ dragover = {}
    /\ inputFiles = [i \in E \cap InputIds |-> <<>>]
    /\ requests = <<>>
    /\ completed = <<>>
    /\ fx = <<>>
    /\ threw = FALSE
    /\ lastEvt = NoEvt
    /\ lastModalEvt = [m \in E \cap ModalIds |-> "none"]
    /\ loadPc = "stars"
    /\ starI = 0
    /\ starCount = 0
    /\ starStyles = {}
    /\ installed = {}

\* The password fields of the page: types ty and icon classes ic.
InitFields(ty, ic) ==
    /\ inputType = ty
    /\ iconClasses = ic
    /\ pwHist = [b \in Fields |-> <<>>]

PlainFields == InitFields([b \in Fields |-> "password"], [b \in Fields |-> {"fa-eye"}])

\* Pages with any of the modal elements, with or without the video element and
\* the file drop zone; any of the modals may lack the 'modal' class.
InitModal ==
    \E M \in SUBSET ModalIds, V \in SUBSET {VideoId},
       Z \in {{}, {ZonePairs[1][1], ZonePairs[1][2]}} :
      \E MC \in SUBSET M :
        /\ InitDoc(M \cup V \cup Z, MC, [i \in Z \cap InputIds |-> UrlName(1)])
        /\ PlainFields

NextModal ==
    \/ \E id \in ModalIds \cup {VideoId, NoSuchId}, src \in SrcArgs : OpenModalCall(id, src)
    \/ \E id \in ModalIds \cup {VideoId, NoSuchId} : CloseModalCall(id)
    \/ \E t \in ModalIds \cup {VideoId} \cup ZoneIds : Click(t)

SpecModal == InitModal /\ [][NextModal]_vars

\* Pages with NumFields password fields in any state of type and icon.
InitPassword ==
    \E ty \in [Fields -> InputTypes], ic \in [Fields -> SUBSET IconPool] :
        /\ InitDoc({}, {}, <<>>)
        /\ InitFields(ty, ic)

NextPassword == \E b \in Fields : TogglePasswordCall(b)

SpecPassword == InitPassword /\ [][NextPassword]_vars

\* The documents that hold, for each setupDropZone call site, the zone or not
\* and the input or not, the input with any value of its upload-URL attribute
\* (with the URL, when the zone is the missing part).
ZoneDocs ==
    {d \in [1..Len(ZonePairs) -> [zone : BOOLEAN, input : BOOLEAN,
                                  attr : {Undefined, "", "url"}]] :
        \A k \in 1..Len(ZonePairs) :
            /\ ~d[k].input => d[k].attr = Undefined
            /\ (~d[k].zone /\ d[k].input) => d[k].attr = "url"}
DocElems(d) ==
    {ZonePairs[k][1] : k \in {j \in 1..Len(ZonePairs) : d[j].zone}}
      \cup {ZonePairs[k][2] : k \in {j \in 1..Len(ZonePairs) : d[j].input}}
DocAttrs(d) ==
    [i \in DocElems(d) \cap InputIds |->
        LET k == CHOOSE j \in 1..Len(ZonePairs) : ZonePairs[j][2] = i
        IN  IF d[k].attr = "url" THEN UrlName(k) ELSE d[k].attr]

\* The bound on the uploads of one page lifetime: an event that would issue
\* one more than max is left out.
RoomForDrop(z, files, max) ==
    (ZoneBound(z) /\ Len(files) # 0) => Len(requests) < max
RoomForChange(i, files, max) ==
    (InputBound(i) /\ Len(files) # 0) => Len(requests) < max

\* Pages with any combination of present, absent and misconfigured zones.
InitZones ==
    \E d \in ZoneDocs :
        /\ InitDoc(DocElems(d), {}, DocAttrs(d))
        /\ PlainFields

\* The events on the zones and their inputs, with file lists of at most
\* maxFiles files and at most maxPosts uploads.
ZoneEvents(maxFiles, maxPosts) ==
    \/ \E t \in ZoneIds \cup InputIds : Click(t)
    \/ \E z \in ZoneIds : DragOver(z)
    \/ \E z \in ZoneIds : DragLeave(z)
    \/ \E z \in ZoneIds, files \in FileLists(maxFiles) :
          RoomForDrop(z, files, maxPosts) /\ Drop(z, files)
    \/ \E i \in InputIds, files \in FileLists(maxFiles) :
          RoomForChange(i, files, maxPosts) /\ Change(i, files)

NextZones == ZoneEvents(MaxZoneFiles, MaxZonePosts)

SpecZones == InitZones /\ [][NextZones]_vars

\* Pages that include any of the three zones, each with its input and URL.
InitDrop ==
    \E d \in ZoneDocs :
        /\ \A k \in 1..Len(ZonePairs) :
              \/ d[k].zone /\ d[k].input /\ d[k].attr = "url"
              \/ ~d[k].zone /\ ~d[k].input
        /\ InitDoc(DocElems(d), {}, DocAttrs(d))
        /\ PlainFields

NextDrop == ZoneEvents(MaxDropFiles, MaxDropPosts)

SpecDrop == InitDrop /\ [][NextDrop]_vars

\* The page with the file zone configured: its uploads from issue to the end of
\* their promise chains.
InitUpload ==
    /\ InitDoc({ZonePairs[1][1], ZonePairs[1][2]}, {},
               [i \in {ZonePairs[1][2]} |-> UrlName(1)])
    /\ PlainFields

NextUpload ==
    \/ \E z \in ZoneIds, files \in FileLists(MaxFiles) :
          RoomForDrop(z, files, MaxRequests) /\ Drop(z, files)
    \/ \E i \in InputIds, files \in FileLists(MaxFiles) :
          RoomForChange(i, files, MaxRequests) /\ Change(i, files)
    \/ \E r \in 1..MaxRequests, resp \in {Rejected} \cup Responses : FetchSettle(r, resp)
    \/ \E r \in 1..MaxRequests : JsonSettle(r)

SpecUpload == InitUpload /\ [][NextUpload]_vars

\* Every issued request eventually settles: the fetch of a pending request
\* resolves or rejects, and the json() of a received response does.
Settles(r) ==
    /\ WF_vars(\E resp \in {Rejected} \cup Responses : FetchSettle(r, resp))
    /\ WF_vars(JsonSettle(r))

\* The uploads of the page with the file zone, with file lists of at most
\* MaxFairFiles files and at most MaxFairRequests uploads.
NextUploadFair ==
    \/ \E z \in ZoneIds, files \in FileLists(MaxFairFiles) :
          RoomForDrop(z, files, MaxFairRequests) /\ Drop(z, files)
    \/ \E i \in InputIds, files \in FileLists(MaxFairFiles) :
          RoomForChange(i, files, MaxFairRequests) /\ Change(i, files)
    \/ \E r \in 1..MaxFairRequests, resp \in {Rejected} \cup Responses : FetchSettle(r, resp)
    \/ \E r \in 1..MaxFairRequests : JsonSettle(r)

SpecUploadFair ==
    /\ InitUpload
    /\ [][NextUploadFair]_vars
    /\ \A r \in 1..MaxFairRequests : Settles(r)

\* Pages with or without the star-background container, with the info modal
\* and with or without the file drop zone, from the start of the
\* DOMContentLoaded handler.
InitStars ==
    \E S \in SUBSET {StarBackgroundId},
       Z \in {{}, {ZonePairs[1][1], ZonePairs[1][2]}} :
        /\ InitLoading(S \cup {"infoModal"} \cup Z, {"infoModal"},
                       [i \in Z \cap InputIds |-> UrlName(1)])
        /\ PlainFields

\* The steps of the DOMContentLoaded handler and, once it has returned, the
\* calls and events of the page.
NextStars ==
    \/ CreateStar
    \/ EndStars
    \/ Wire
    \/ loadPc = "ready" /\ \E id \in ModalIds, src \in SrcArgs : OpenModalCall(id, src)
    \/ loadPc = "ready" /\ \E id \in ModalIds : CloseModalCall(id)
    \/ loadPc = "ready" /\ \E t \in ModalIds \cup ZoneIds : Click(t)
    \/ loadPc = "ready" /\ \E b \in Fields : TogglePasswordCall(b)
    \/ loadPc = "ready" /\ \E z \in ZoneIds : DragOver(z)
    \/ loadPc = "ready" /\ \E z \in ZoneIds : DragLeave(z)

SpecStars == InitStars /\ [][NextStars]_vars

(***************************************************************************)
(* Properties of the modal controller, checked under SpecModal.             *)
(***************************************************************************)
Shown(m) == display[m] = "block"
\* The modal elements of the page.
Modals == elems \cap ModalIds

\* C1: every existing modal is shown exactly when the most recent
\* openModal / closeModal / backdrop click addressed to it was an openModal;
\* a modal nothing has addressed yet is hidden, and right after closeModal(m)
\* the modal m is hidden.
C1_ShownIffLastOpened ==
    /\ \A m \in Modals : Shown(m) <=> lastModalEvt[m] = "open"
    /\ (lastEvt.op = "closeModal" /\ lastEvt.id \in Modals) => ~Shown(lastEvt.id)

\* One modal was opened and is shown while the other was opened, then closed by
\* a backdrop click, and is hidden.
C1_Witness ==
    /\ Modals = ModalIds
    /\ lastEvt.op = "click"
    /\ lastEvt.id = VideoModalId
    /\ lastModalEvt[VideoModalId] = "close" /\ ~Shown(VideoModalId)
    /\ lastModalEvt["infoModal"] = "open" /\ Shown("infoModal")

\* C2: openModal or closeModal with an id that names no element raises no
\* error and changes neither a modal's visibility nor the video's source and
\* playback state.
C2_MissingIdIsNoOp ==
    [][(lastEvt'.op \in {"openModal", "closeModal"} /\ ~(lastEvt'.id \in elems))
          => /\ display' = display
             /\ videoSrc' = videoSrc
             /\ videoPaused' = videoPaused
             /\ threw' = FALSE]_vars

\* openModal('videoPlayerModal', src) was called with a source on a page that
\* has the video element and a shown modal but no video-player modal.
C2_Witness ==
    /\ lastEvt.op = "openModal"
    /\ lastEvt.id = VideoModalId
    /\ Truthy(lastEvt.arg)
    /\ ~Exists(VideoModalId)
    /\ Exists(VideoId)
    /\ Exists("infoModal") /\ Shown("infoModal")
    /\ videoSrc = "" /\ videoPaused /\ ~threw

\* C3: with the video-player modal and the video element present, right after
\* openModal('videoPlayerModal', src) with a non-empty src the video's source
\* is src and it plays; right after closeModal('videoPlayerModal') the video
\* is paused and has an empty source.
C3_VideoFollowsModal ==
    (Exists(VideoModalId) /\ Exists(VideoId) /\ lastEvt.id = VideoModalId) =>
        /\ (lastEvt.op = "openModal" /\ Truthy(lastEvt.arg))
              => (videoSrc = lastEvt.arg /\ ~videoPaused)
        /\ lastEvt.op = "closeModal" => (videoSrc = "" /\ videoPaused)

\* The player was opened with the second source.
C3_Witness ==
    /\ Exists(VideoModalId) /\ Exists(VideoId)
    /\ lastEvt.op = "openModal" /\ lastEvt.id = VideoModalId
    /\ lastEvt.arg = SrcName(NumSrcs)
    /\ videoSrc = SrcName(NumSrcs) /\ ~videoPaused

\* C4: a click whose target carries class 'modal' hides the modal with the
\* target's id and leaves every other modal's visibility as it was; a click
\* whose target does not carry the class changes no modal's visibility.
C4_BackdropClickClosesOnlyTarget ==
    [][lastEvt'.op = "click" =>
          IF lastEvt'.id \in modalClass
          THEN /\ display'[lastEvt'.id] = "none"
               /\ \A m \in Modals \ {lastEvt'.id} : display'[m] = display[m]
          ELSE \A m \in Modals : display'[m] = display[m]]_vars

\* A backdrop click has hidden one modal while the other modal stays shown.
C4_Witness ==
    /\ lastEvt.op = "click"
    /\ lastEvt.id \in modalClass
    /\ ~Shown(lastEvt.id)
    /\ \E m \in Modals \ {lastEvt.id} : Shown(m)

(***************************************************************************)
(* Properties of the password toggle, checked under SpecPassword.           *)
(***************************************************************************)
\* The state of field b two toggles ago.
TwoAgo(b) == pwHist[b][1]
\* The icon shows the glyph that goes with the input's type.
Matches(type, icon) ==
    IF type = "password"
    THEN "fa-eye" \in icon /\ ~("fa-eye-slash" \in icon)
    ELSE "fa-eye-slash" \in icon /\ ~("fa-eye" \in icon)

\* C5 as stated: from any type in {password, text} and any icon classes, two
\* consecutive togglePassword calls restore the input type and the icon classes.
C5_TwoTogglesRestoreAll ==
    \A b \in Fields :
        (Len(pwHist[b]) = 2 /\ TwoAgo(b).type \in {"password", "text"}) =>
            /\ inputType[b] = TwoAgo(b).type
            /\ iconClasses[b] = TwoAgo(b).icon

\* C5 (amended): two consecutive calls restore the input type; they restore the
\* icon classes exactly when the icon started with the one class of the pair
\* that goes with the type; in every case the icon ends with that class of the
\* pair only, its other classes as they were.
C5_TwoTogglesRestoreMatching ==
    \A b \in Fields :
        (Len(pwHist[b]) = 2 /\ TwoAgo(b).type \in {"password", "text"}) =>
            /\ inputType[b] = TwoAgo(b).type
            /\ iconClasses[b] = TwoAgo(b).icon
                  <=> Matches(TwoAgo(b).type, TwoAgo(b).icon)
            /\ Matches(inputType[b], iconClasses[b])
            /\ iconClasses[b] \ {"fa-eye", "fa-eye-slash"}
                  = TwoAgo(b).icon \ {"fa-eye", "fa-eye-slash"}

\* A field that started as text with fa-eye-slash and another class has been
\* toggled twice and is back where it started.
C5_Witness ==
    \E b \in Fields :
        /\ Len(pwHist[b]) = 2
        /\ TwoAgo(b) = [type |-> "text", icon |-> {"fa-eye-slash", "fas"}]
        /\ inputType[b] = "text"
        /\ iconClasses[b] = {"fa-eye-slash", "fas"}


(***************************************************************************)
(* Properties of the drop zones, checked under SpecDrop and SpecZones.      *)
(***************************************************************************)
\* The number of the setupDropZone call site whose zone or input has this id.
SiteOf(id) == CHOOSE k \in 1..Len(ZonePairs) : id \in {ZonePairs[k][1], ZonePairs[k][2]}
LastRequest(q) == q[Len(q)]

\* C6: a drop of a non-empty file list on a configured zone issues one POST to
\* the URL written on that zone's own input, with one part named 'file' per
\* dropped file, in order, and makes the dropped list the input's file list.
C6_DropPostsToOwnUrl ==
    [][(/\ lastEvt'.op = "drop"
        /\ lastEvt'.id \in DOMAIN bindings
        /\ Len(lastEvt'.files) # 0)
          => LET k     == SiteOf(lastEvt'.id)
                 files == lastEvt'.files
                 rq    == LastRequest(requests')
             IN  /\ Len(requests') = Len(requests) + 1
                 /\ SubSeq(requests', 1, Len(requests)) = requests
                 /\ rq.method = "POST"
                 /\ rq.url = uploadUrlAttr[ZonePairs[k][2]]
                 /\ rq.url = UrlName(k)
                 /\ Len(rq.parts) = Len(files)
                 /\ \A i \in 1..Len(files) : rq.parts[i] = <<"file", files[i]>>
                 /\ inputFiles'[ZonePairs[k][2]] = files]_vars

\* With the file and video zones both configured, a drop of two files on the
\* video zone, made while an upload of the file zone is pending, went to the
\* video zone's URL.
C6_Witness ==
    /\ lastEvt.op = "drop"
    /\ lastEvt.id = ZonePairs[2][1]
    /\ Len(lastEvt.files) = 2
    /\ ZonePairs[1][1] \in DOMAIN bindings
    /\ Len(requests) = 2
    /\ requests[1].url = UrlName(1)
    /\ requests[2].url = UrlName(2)
    /\ Len(requests[2].parts) = 2
    /\ inputFiles[ZonePairs[2][2]] = lastEvt.files

\* Call site k is one setupDropZone returns early for: the zone or the input
\* is missing, or the input has no upload-URL attribute or an empty one.
Misconfigured(k) ==
    \/ ~Exists(ZonePairs[k][1])
    \/ ~Exists(ZonePairs[k][2])
    \/ uploadUrlAttr[ZonePairs[k][2]] \in {Undefined, ""}

\* C8: for a call site setupDropZone returned early for, no listener exists: a
\* click, dragover, dragleave, drop or change on its zone or its input issues
\* no POST, makes no call out of the script (no file dialog, no fetch, no
\* preventDefault) and changes no indicator class.
C8_MisconfiguredZoneIsInert ==
    [][(/\ lastEvt'.op \in {"click", "dragover", "dragleave", "drop", "change"}
        /\ lastEvt'.id \in ZoneIds \cup InputIds
        /\ Misconfigured(SiteOf(lastEvt'.id)))
          => /\ requests' = requests
             /\ dragover' = dragover
             /\ fx' = <<>>]_vars

\* A file was dropped on a zone whose input carries an empty upload-URL
\* attribute, on a page where another zone is configured and has an upload
\* pending; nothing came of the drop.
C8_Witness ==
    \E k \in 1..Len(ZonePairs) :
        /\ Exists(ZonePairs[k][1]) /\ Exists(ZonePairs[k][2])
        /\ uploadUrlAttr[ZonePairs[k][2]] = ""
        /\ lastEvt.op = "drop" /\ lastEvt.id = ZonePairs[k][1]
        /\ Len(lastEvt.files) # 0
        /\ Len(requests) = 1
        /\ fx = <<>>
        /\ inputFiles[ZonePairs[k][2]] = <<>>

(***************************************************************************)
(* Properties of the uploads, checked under SpecUpload.                     *)
(***************************************************************************)
Requests  == 1..Len(requests)
Done(r)   == requests[r].pc = "done"
\* The body of r's response parsed as JSON.
GotJson(r) == requests[r].resp.kind = "response" /\ requests[r].resp.json

\* C7: a request whose promise chain has ended has made exactly one reload and
\* no alert when its response body parsed as JSON, and exactly one alert and
\* no reload when the fetch was rejected or the body did not parse; a request
\* still pending has made neither.
C7_OneOutcomePerRequest ==
    \A r \in Requests :
        /\ (Done(r) /\ GotJson(r))
              => (requests[r].reloads = 1 /\ requests[r].alerts = 0)
        /\ (Done(r) /\ ~GotJson(r))
              => (requests[r].reloads = 0 /\ requests[r].alerts = 1)
        /\ ~Done(r) => (requests[r].reloads = 0 /\ requests[r].alerts = 0)

\* One upload has ended in a reload and another, whose fetch was rejected, in
\* an alert.
C7_Witness ==
    /\ Len(requests) = 2
    /\ Done(1) /\ GotJson(1) /\ requests[1].reloads = 1
    /\ Done(2) /\ requests[2].resp = Rejected /\ requests[2].alerts = 1

\* r2 was started while r1 was pending.
Racing(r1, r2) == r1 \in requests[r2].during
Triggers(r) == requests[r].reloads + requests[r].alerts

\* C9 as stated: of two racing requests, the one that completes last is the
\* one that triggers the reload or the alert, so one that has completed while
\* the other is pending has triggered nothing.
C9_OnlyLastCompletedTriggers ==
    \A r1, r2 \in Requests :
        (Racing(r1, r2) /\ Done(r1) # Done(r2)) =>
            (Triggers(r1) = 0 /\ Triggers(r2) = 0)

\* C9 (amended): of two racing requests each triggers one reload or alert of
\* its own when its promise chain ends, the first to complete as well as the
\* last, whichever of the two that is.
C9_EachRacerTriggersItsOwn ==
    \A r1, r2 \in Requests :
        Racing(r1, r2) =>
            /\ Triggers(r1) = (IF Done(r1) THEN 1 ELSE 0)
            /\ Triggers(r2) = (IF Done(r2) THEN 1 ELSE 0)
            /\ (Done(r1) /\ Done(r2)) =>
                  \E i, j \in 1..Len(completed) :
                      i # j /\ completed[i] = r1 /\ completed[j] = r2

\* The second upload was started while the first was pending and completed
\* first; both have completed and each has triggered its own reload or alert.
C9_Witness ==
    /\ Len(requests) = 2
    /\ Racing(1, 2)
    /\ completed = <<2, 1>>
    /\ Triggers(1) = 1 /\ Triggers(2) = 1

\* C10: a request whose response has a status outside 200-299 and a body that
\* parses as JSON ends as a success: one reload, no alert.
C10_ErrorStatusWithJsonReloads ==
    \A r \in Requests :
        (/\ Done(r)
         /\ requests[r].resp.kind = "response"
         /\ ~(requests[r].resp.status \in 200..299)
         /\ requests[r].resp.json)
            => (requests[r].reloads = 1 /\ requests[r].alerts = 0)

\* A response with status 500 and a JSON body has made the page reload.
C10_Witness ==
    \E r \in Requests :
        /\ Done(r)
        /\ requests[r].resp = [kind |-> "response", status |-> 500, json |-> TRUE]
        /\ requests[r].reloads = 1
        /\ lastEvt.op = "jsonSettled" /\ lastEvt.n = r
        /\ fx = <<[call |-> "console.log", on |-> ""], [call |-> "reload", on |-> ""]>>

\* The calls out of the script named call that the last handler turn made.
Calls(q, call) == {i \in 1..Len(q) : q[i].call = call}

\* C11: the step in which an upload fails (its fetch is rejected, or its body
\* does not parse) leaves every input's file list as it was, reloads nothing
\* and issues no further POST: the requests are those there were, and the
\* turn calls neither reload nor fetch.
C11_FailureKeepsFilesNoRetry ==
    [][(/\ lastEvt'.op \in {"fetchSettled", "jsonSettled"}
        /\ requests'[lastEvt'.n].pc = "done"
        /\ ~(requests'[lastEvt'.n].resp.kind = "response"
               /\ requests'[lastEvt'.n].resp.json))
          => /\ inputFiles' = inputFiles
             /\ Len(requests') = Len(requests)
             /\ requests'[lastEvt'.n].reloads = 0
             /\ Calls(fx', "reload") = {}
             /\ Calls(fx', "fetch") = {}]_vars

\* An upload of two dropped files has just failed on a body that is not JSON:
\* the alert was shown and the two files are still in the input.
C11_Witness ==
    /\ lastEvt.op = "jsonSettled"
    /\ Len(requests) = 1
    /\ Done(1) /\ ~GotJson(1)
    /\ requests[1].alerts = 1 /\ requests[1].reloads = 0
    /\ Len(requests[1].parts) = 2
    /\ Len(inputFiles[ZonePairs[1][2]]) = 2
    /\ Calls(fx, "alert") # {}

\* The event of the step was a drop on a configured zone, or a change of a
\* configured zone's input, with at least one file.
UploadEvent(e) ==
    /\ Len(e.files) # 0
    /\ \/ e.op = "drop" /\ e.id \in DOMAIN bindings
       \/ e.op = "change" /\ \E z \in DOMAIN bindings : bindings[z].input = e.id

\* C13: uploads are unguarded.  Every drop with files on a configured zone and
\* every change of its input with files adds exactly one POST, whether or not
\* another upload is pending, and no other step adds or removes one, so the
\* POSTs issued number the drops and changes with files; a drop or change
\* without files issues none, and a drop without files leaves the input's
\* file list as it was.
C13_OnePostPerUploadEvent ==
    [][/\ Len(requests') = Len(requests) + (IF UploadEvent(lastEvt') THEN 1 ELSE 0)
       /\ (lastEvt'.op = "drop" /\ Len(lastEvt'.files) = 0)
             => inputFiles' = inputFiles]_vars

\* A selection of files in the dialog has issued a second POST while the POST
\* of an earlier drop was pending.
C13_Witness ==
    /\ lastEvt.op = "change"
    /\ Len(lastEvt.files) # 0
    /\ Len(requests) = 2
    /\ requests[2].during = {1}
    /\ ~Done(1) /\ ~Done(2)

\* Field b has been toggled at least once.
Toggled(b) == Len(pwHist[b]) >= 1

\* C15: once togglePassword has been called on a button, and after any number
\* of further calls, the input is of type password exactly when the icon has
\* fa-eye and lacks fa-eye-slash, and of type text exactly when the icon has
\* fa-eye-slash and lacks fa-eye.
C15_TypeAndIconInLockstep ==
    \A b \in Fields :
        Toggled(b) =>
            /\ inputType[b] = "password"
                  <=> ("fa-eye" \in iconClasses[b] /\ ~("fa-eye-slash" \in iconClasses[b]))
            /\ inputType[b] = "text"
                  <=> ("fa-eye-slash" \in iconClasses[b] /\ ~("fa-eye" \in iconClasses[b]))

\* A field that started with a type other than password and text and with
\* both classes of the pair on its icon has been toggled once and is masked
\* with fa-eye only, while the other field is untouched.
C15_Witness ==
    \E b \in Fields :
        /\ lastEvt.op = "togglePassword" /\ lastEvt.n = b
        /\ Len(pwHist[b]) = 1
        /\ pwHist[b][1].type = "email"
        /\ pwHist[b][1].icon = {"fa-eye", "fa-eye-slash"}
        /\ inputType[b] = "password"
        /\ iconClasses[b] = {"fa-eye"}
        /\ \E o \in Fields \ {b} : ~Toggled(o)

\* C16: the video plays or has a non-empty source only while the video-player
\* modal is shown: whenever that modal is hidden, or the page has none, the
\* video is paused with an empty source.
C16_VideoOnlyWhileModalShown ==
    /\ (videoSrc # "" \/ ~videoPaused)
          => (Exists(VideoModalId) /\ Shown(VideoModalId))
    /\ (Exists(VideoModalId) /\ ~Shown(VideoModalId))
          => (videoSrc = "" /\ videoPaused)

\* A click on the backdrop of the video-player modal has closed it: the modal
\* is hidden and the video is paused and has no source.
C16_Witness ==
    /\ Exists(VideoModalId) /\ Exists(VideoId)
    /\ lastEvt.op = "click" /\ lastEvt.id = VideoModalId
    /\ HasModalClass(VideoModalId)
    /\ lastModalEvt[VideoModalId] = "close"
    /\ ~Shown(VideoModalId)
    /\ videoSrc = "" /\ videoPaused

\* The drag-related events of a zone.
DragOps == {"dragover", "dragleave", "drop"}

\* Event e is a drag-related event on zone z.
DragEventOn(e, z) == e.op \in DragOps /\ e.id = z

\* C14: a configured zone carries the 'dragover' class exactly when the most
\* recent drag-related event on it was a dragover.  No zone carries it before
\* the first event; a dragover on the zone puts it there; a dragleave or a
\* drop on the zone, with or without files, takes it away; and every other
\* step (a click on the zone, an event on another zone, a change of an input)
\* leaves it as it was.
C14_DragoverIffLastDragEvent ==
    /\ dragover = {}
    /\ [][\A z \in DOMAIN bindings :
            IF DragEventOn(lastEvt', z)
            THEN (z \in dragover') <=> (lastEvt'.op = "dragover")
            ELSE (z \in dragover') <=> (z \in dragover)]_vars

\* A drop without files on a configured zone has taken its indicator away
\* while another configured zone, dragged over earlier, still carries its own.
C14_Witness ==
    \E z \in DOMAIN bindings, o \in DOMAIN bindings :
        /\ z # o
        /\ lastEvt.op = "drop" /\ lastEvt.id = z /\ Len(lastEvt.files) = 0
        /\ ~(z \in dragover)
        /\ o \in dragover

\* Request r has been issued.
Issued(r) == r <= Len(requests)

\* C17: when every issued request eventually settles, every upload that was
\* initiated eventually ends in a reload or an alert: its request does not
\* stay pending and does not end with neither of the two.
C17_UploadEndsInReloadOrAlert ==
    \A r \in 1..MaxFairRequests :
        Issued(r) ~> (Issued(r) /\ Done(r) /\ Triggers(r) = 1)

\* An upload of two selected files was initiated, its fetch resolved with an
\* error status and a body that is not JSON, and it has ended in an alert.
C17_Witness ==
    /\ lastEvt.op = "jsonSettled" /\ lastEvt.n = MaxFairRequests
    /\ Issued(MaxFairRequests) /\ Done(MaxFairRequests)
    /\ requests[MaxFairRequests].resp.kind = "response"
    /\ requests[MaxFairRequests].resp.status = 500
    /\ ~requests[MaxFairRequests].resp.json
    /\ Len(requests[MaxFairRequests].parts) = MaxFairFiles
    /\ requests[MaxFairRequests].alerts = 1
    /\ requests[MaxFairRequests].reloads = 0

\* The DOMContentLoaded handler has returned.
Ready == loadPc = "ready"

\* C12: when the DOMContentLoaded handler has returned, the star-background
\* container, if the page has one, has got exactly numberOfStars stars, each
\* with its height equal to its width; without the container no star was
\* created; in both cases the handlers are on window and the drop zones are
\* set up.  No step after that adds or removes a star.
C12_StarsCreatedOnceAtPageReady ==
    /\ [](Ready =>
            /\ starCount = IF StarBackgroundId \in elems THEN numberOfStars ELSE 0
            /\ \A st \in starStyles : st.height = st.width
            /\ installed = Handlers
            /\ bindings = PageReady(elems, uploadUrlAttr))
    /\ [][Ready => (starCount' = starCount /\ starStyles' = starStyles)]_vars

\* The page has the container and the file zone: the stars were created in
\* both widths, the zone was set up, and a password toggle has run since.
C12_Witness ==
    /\ Ready
    /\ StarBackgroundId \in elems
    /\ starCount = numberOfStars
    /\ Cardinality(starStyles) = Cardinality(StarWidths)
    /\ ZoneBound(ZonePairs[1][1])
    /\ lastEvt.op = "togglePassword"

=============================================================================
